---- MODULE Spec2Model ----
(***************************************************************************)
(* Ride lifecycle and wallet ledger of the ride-hailing backend.           *)
(*                                                                         *)
(* Every HTTP request runs in its own database session (get_db).  What a   *)
(* handler SELECTs it keeps in its session (expire_on_commit=False); what  *)
(* it UPDATEs becomes visible to the other sessions at its commit.  A      *)
(* handler is therefore modelled as one step per commit, preceded by one   *)
(* step for its reads and checks.  The database is PostgreSQL at its       *)
(* default isolation level (READ COMMITTED): a blind UPDATE ... WHERE id   *)
(* never fails because another session has changed the row in between.     *)
(***************************************************************************)
EXTENDS Integers, Sequences, FiniteSets, TLC

VARIABLES
    rides,          \* table rides: sequence of rows, the id is the index
    is_available,   \* column users.is_available of the drivers
    wallets,        \* table wallets: user id -> balance, or NoWallet
    txns,           \* table transactions: user id -> rows of that user's wallet
    pc,             \* per request slot: where the handler running in it stands
    loc,            \* per request slot: the handler's session (its locals)
    resp,           \* the status code of the response that was sent last
    wins,           \* per ride: the callers whose accept call returned success, in order
    detail,         \* the detail of that response, kept where a handler has
                    \* two errors with one status code
    body,           \* the field balance of that response, NoBalance when it has none
    wallet_rows,    \* table wallets: user id -> number of rows with that user_id
    quote,          \* the FareEstimate of that response, as a set: empty when it has none
    found,          \* the list "drivers" of that response, empty when it has none
    user_status,    \* column users.status of the drivers
    is_active,      \* column users.is_active of the drivers
    current_longitude,  \* column users.current_longitude of the drivers
    updated_at,     \* column users.updated_at of the drivers, as written by update_location
    clock,          \* datetime.utcnow(): the number of timestamps taken so far
    is_verified,    \* column users.is_verified of the drivers
    kyc_applications,   \* table kyc_applications: sequence of rows, the id is the index
    now,            \* time.time(), in seconds
    otp_attempts,   \* OTPManager._otp_attempts: identifier -> count, 0 when absent
    last_sent,      \* OTPManager._last_sent: identifier -> time, NoTime when absent
    otp,            \* column users.otp, NoOtp when null
    otp_valid_until,    \* column users.otp_valid_until, NoTime when null
    otp_verified    \* column users.otp_verified

vars == <<rides, is_available, wallets, txns, pc, loc, resp, wins, detail, body, wallet_rows,
          quote, found, user_status, is_active, current_longitude, updated_at, clock,
          is_verified, kyc_applications, now, otp_attempts, last_sent, otp, otp_valid_until,
          otp_verified>>

rideVars == <<rides, is_available, wins>>
walletVars == <<wallets, txns, wallet_rows>>
kycVars == <<is_verified, kyc_applications>>
otpVars == <<now, otp_attempts, last_sent, otp, otp_valid_until, otp_verified>>
geoVars == <<user_status, is_active, current_longitude, updated_at, clock, kycVars, otpVars>>

(***************************************************************************)
(* Bounds of the model.                                                    *)
(***************************************************************************)
MaxRides == 2       \* rides created in one behaviour
NumProcs == 2       \* requests in flight at once
MaxAmount == 2      \* largest amount of one credit or debit
MaxBalance == 3     \* credits stop when the balance would pass it
MaxTxns == 3        \* rows of the table transactions
MaxApplications == 2    \* rows of the table kyc_applications
MaxTime == 840         \* seconds of time.time() in one behaviour
MaxClock == 2       \* calls of update_location by drivers in one behaviour

Procs == 1..NumProcs
RideIds == 1..MaxRides
Amounts == 0..MaxAmount

\* distances in metres between pickup and dropoff, as calculate_distance gives
\* them; multiples of 20, for which distance * 0.15 is a whole number of rupees
Distances == {0, 480, 500, 1200, 1480}
\* the one route of the specifications that are not about fares
OneRoute == {500}

(***************************************************************************)
(* Users.  The role of a user is fixed at registration.                    *)
(***************************************************************************)
NULL == 0
Riders == {1, 2}
Drivers == {3, 4}
Users == Riders \cup Drivers

\* the users that call the wallet endpoints
WalletOwners == {1}

\* an administrator, who calls the ride endpoints like any other user
Admins == {5}
Callers == Users \cup Admins

\* the e-mail addresses of the users that log in with an OTP, the OTPs that
\* random.choice can draw, and the absent values
Identifiers == {1}
Otps == {1, 2}
NoOtp == 0
NoTime == -1

\* callers of the specification of bans, and the place they are at
BanCallers == {1, 3}
OnePlace == {0}

\* callers of the specification of a ride with position reports
TripCallers == {1, 3}

\* callers of the specification of all ride handlers
RideCallers == {1, 3, 5}

role(u) == IF u \in Drivers THEN "driver" ELSE IF u \in Admins THEN "admin" ELSE "user"

\* the members of the enum RideStatus: there is no member "started"
RideStatus == {"requested", "offered", "accepted", "completed", "cancelled"}

NoWallet == -1

\* only WalletBalanceResponse has the field balance
NoBalance == -1

\* fare holds the columns estimated_distance .. total_fare of the row
Ride(rider, driver, st, fare) ==
    [rider_id |-> rider, driver_id |-> driver, status |-> st, fare |-> fare]

\* users.current_longitude is nullable; longitudes are within -180..180
NoPosition == 999

NoLoc == [user |-> NULL, arg |-> 0, status |-> "none", driver |-> NULL, bal |-> 0, idx |-> 0,
          dist |-> 0, otp |-> 0, otp_valid_until |-> 0]

Init ==
    /\ rides = << >>
    /\ is_available = [d \in Drivers |-> FALSE]
    /\ wallets = [u \in Users |-> NoWallet]
    /\ txns = [u \in Users |-> << >>]
    /\ pc = [p \in Procs |-> "idle"]
    /\ loc = [p \in Procs |-> NoLoc]
    /\ resp = 0
    /\ wins = [r \in RideIds |-> << >>]
    /\ detail = ""
    /\ body = NoBalance
    /\ wallet_rows = [u \in Users |-> 0]
    /\ quote = {}
    /\ found = << >>
    /\ user_status = [d \in Drivers |-> "pending"]
    /\ is_active = [d \in Drivers |-> TRUE]
    /\ current_longitude = [d \in Drivers |-> NoPosition]
    /\ updated_at = [d \in Drivers |-> 0]
    /\ clock = 0
    /\ is_verified = [d \in Drivers |-> FALSE]
    /\ kyc_applications = << >>
    /\ now = 0
    /\ otp_attempts = [e \in Identifiers |-> 0]
    /\ last_sent = [e \in Identifiers |-> NoTime]
    /\ otp = [e \in Identifiers |-> NoOtp]
    /\ otp_valid_until = [e \in Identifiers |-> NoTime]
    /\ otp_verified = [e \in Identifiers |-> FALSE]

(***************************************************************************)
(* A handler returns: HTTPException(status_code) gives that code, an       *)
(* uncaught exception gives 500, a normal return gives 200.  get_db rolls  *)
(* the session back on every exception, so nothing uncommitted survives.   *)
(***************************************************************************)
Respond(p, code, text, balance, fare, drivers) ==
    /\ resp' = code
    /\ detail' = text
    /\ body' = balance
    /\ quote' = fare
    /\ found' = drivers
    /\ pc' = [pc EXCEPT ![p] = "idle"]
    /\ loc' = [loc EXCEPT ![p] = NoLoc]

\* the handlers below this line do not touch the drivers' accounts or positions
ReturnBody(p, code, text, balance) ==
    /\ Respond(p, code, text, balance, {}, << >>)
    /\ UNCHANGED geoVars

ReturnWith(p, code, text) == ReturnBody(p, code, text, NoBalance)

Return(p, code) == ReturnWith(p, code, "")

Suspend(p, label, l) ==
    /\ pc' = [pc EXCEPT ![p] = label]
    /\ loc' = [loc EXCEPT ![p] = l]
    /\ UNCHANGED <<resp, detail, body, quote, found>>

Await(p, label, l) ==
    /\ Suspend(p, label, l)
    /\ UNCHANGED geoVars

Exists(r) == r \in 1..Len(rides)

\* get_current_user, the dependency of every handler, answers 400 to a caller
\* whose is_active is false
Inactive_never(u) == FALSE

Inactive(u) == u \in Drivers /\ ~is_active[u]

\* rows that are being inserted by a handler that has passed its checks
Inserting == {p \in Procs : pc[p] = "offer_ride_insert"}

----------------------------------------------------------------------------
(***************************************************************************)
(* POST /rides/request                                                     *)
(* D is the distance between pickup and dropoff of the request.            *)
(***************************************************************************)
\* the fare of a request with the time fare rounded up
request_ride_fare_ceil(D) ==
    LET estimated_duration == (D * 2 + 999) \div 1000
        base_fare == 50
        distance_fare == (D * 15) \div 100
        time_fare == estimated_duration * 1
    IN  [estimated_distance |-> D, estimated_duration |-> estimated_duration,
         base_fare |-> base_fare, distance_fare |-> distance_fare,
         time_fare |-> time_fare, total_fare |-> base_fare + distance_fare + time_fare]

request_ride_fare(D) ==
    LET estimated_duration == (D * 2) \div 1000
        base_fare == 50
        distance_fare == (D * 15) \div 100
        time_fare == estimated_duration * 1
    IN  [estimated_distance |-> D, estimated_duration |-> estimated_duration,
         base_fare |-> base_fare, distance_fare |-> distance_fare,
         time_fare |-> time_fare, total_fare |-> base_fare + distance_fare + time_fare]

\* a request that stores the caller as the driver of the new ride
request_ride_as_driver(p, u, D) ==
    /\ pc[p] = "idle"
    /\ Len(rides) + Cardinality(Inserting) < MaxRides
    /\ IF role(u) = "driver"
       THEN /\ Return(p, 403)
            /\ UNCHANGED <<rideVars, walletVars>>
       ELSE /\ rides' = Append(rides, Ride(NULL, u, "requested", request_ride_fare(D)))
            /\ Return(p, 200)
            /\ UNCHANGED <<is_available, wins, walletVars>>

request_ride(p, u, D) ==
    /\ pc[p] = "idle"
    /\ IF Inactive(u)
       THEN /\ Return(p, 400)
            /\ UNCHANGED <<rideVars, walletVars>>
       ELSE
            /\ Len(rides) + Cardinality(Inserting) < MaxRides
            /\ IF role(u) = "driver"
               THEN /\ Return(p, 403)
                    /\ UNCHANGED <<rideVars, walletVars>>
               ELSE /\ rides' = Append(rides, Ride(u, NULL, "requested", request_ride_fare(D)))
                    /\ Return(p, 200)
                    /\ UNCHANGED <<is_available, wins, walletVars>>

(***************************************************************************)
(* POST /rides/{ride_id}/accept                                            *)
(***************************************************************************)
\* the checks of accept_ride without the test of the caller's role
accept_ride_check_any_role(u, r) ==
    IF ~Exists(r) THEN 404
    ELSE IF rides[r].status # "requested" THEN 400
    ELSE 200

accept_ride_check(u, r) ==
    IF role(u) # "driver" THEN 403
    ELSE IF ~Exists(r) THEN 404
    ELSE IF rides[r].status # "requested" THEN 400
    ELSE 200

accept_ride(p, u, r) ==
    /\ pc[p] = "idle"
    /\ IF Inactive(u)
       THEN /\ Return(p, 400)
            /\ UNCHANGED <<rideVars, walletVars>>
       ELSE
            /\ LET code == accept_ride_check(u, r) IN
               IF code # 200
               THEN Return(p, code)
               ELSE Await(p, "accept_ride_commit", [NoLoc EXCEPT !.user = u, !.arg = r])
            /\ UNCHANGED <<rideVars, walletVars>>

accept_ride_commit_status_only(p) ==
    /\ pc[p] = "accept_ride_commit"
    /\ LET u == loc[p].user
           r == loc[p].arg
       IN /\ rides' = [rides EXCEPT ![r].status = "accepted"]
          /\ is_available' = [is_available EXCEPT ![u] = FALSE]
          /\ wins' = [wins EXCEPT ![r] = Append(@, u)]
    /\ Return(p, 200)
    /\ UNCHANGED walletVars

accept_ride_commit(p) ==
    /\ pc[p] = "accept_ride_commit"
    /\ LET u == loc[p].user
           r == loc[p].arg
       IN /\ rides' = [rides EXCEPT ![r].driver_id = u, ![r].status = "accepted"]
          /\ is_available' = [is_available EXCEPT ![u] = FALSE]
          /\ wins' = [wins EXCEPT ![r] = Append(@, u)]
    /\ Return(p, 200)
    /\ UNCHANGED walletVars

(***************************************************************************)
(* POST /rides/{ride_id}/start and POST /rides/{ride_id}/complete          *)
(* Both name RideStatus.started, which is not a member of the enum: the    *)
(* attribute access raises AttributeError where it is evaluated.           *)
(***************************************************************************)
start_ride_check(u, r) ==
    IF ~Exists(r) THEN 404
    ELSE IF rides[r].status # "accepted" THEN 400
    ELSE IF "started" \notin RideStatus THEN 500
    ELSE 200

start_ride(p, u, r) ==
    /\ pc[p] = "idle"
    /\ IF Inactive(u)
       THEN /\ Return(p, 400)
            /\ UNCHANGED <<rideVars, walletVars>>
       ELSE
            /\ LET code == start_ride_check(u, r) IN
               /\ Return(p, code)
               /\ rides' = IF code = 200 THEN [rides EXCEPT ![r].status = "started"] ELSE rides
            /\ UNCHANGED <<is_available, wins, walletVars>>

complete_ride_check(u, r) ==
    IF ~Exists(r) THEN 404
    ELSE IF "started" \notin RideStatus THEN 500
    ELSE IF rides[r].status # "started" THEN 400
    ELSE 200

complete_ride(p, u, r) ==
    /\ pc[p] = "idle"
    /\ IF Inactive(u)
       THEN /\ Return(p, 400)
            /\ UNCHANGED <<rideVars, walletVars>>
       ELSE
            /\ LET code == complete_ride_check(u, r) IN
               /\ Return(p, code)
               /\ rides' = IF code = 200 THEN [rides EXCEPT ![r].status = "completed"] ELSE rides
               /\ is_available' = IF code = 200 /\ rides[r].driver_id \in Drivers
                                  THEN [is_available EXCEPT ![rides[r].driver_id] = TRUE]
                                  ELSE is_available
            /\ UNCHANGED <<wins, walletVars>>

(***************************************************************************)
(* POST /rides/{ride_id}/cancel                                            *)
(* The handler tests ride.status again after its UPDATE.  An ORM-enabled   *)
(* UPDATE synchronises the matching objects of the session when the        *)
(* synchronize_session strategy can (the attribute then reads "cancelled"  *)
(* and the driver is not released) and leaves them as loaded when it       *)
(* cannot; which of the two happens depends on the installed SQLAlchemy,   *)
(* so both are outcomes of this step.                                      *)
(***************************************************************************)
cancel_ride_check(u, r) ==
    IF ~Exists(r) THEN 404
    ELSE IF u # rides[r].rider_id /\ u # rides[r].driver_id THEN 403
    ELSE IF rides[r].status \in {"completed", "cancelled"} THEN 400
    ELSE 200

cancel_ride(p, u, r) ==
    /\ pc[p] = "idle"
    /\ IF Inactive(u)
       THEN /\ Return(p, 400)
            /\ UNCHANGED <<rideVars, walletVars>>
       ELSE
            /\ LET code == cancel_ride_check(u, r) IN
               IF code # 200
               THEN Return(p, code)
               ELSE Await(p, "cancel_ride_commit",
                          [NoLoc EXCEPT !.user = u, !.arg = r,
                                        !.status = rides[r].status, !.driver = rides[r].driver_id])
            /\ UNCHANGED <<rideVars, walletVars>>

cancel_ride_releases(l, synced) ==
    LET status == IF synced THEN "cancelled" ELSE l.status
    IN  l.driver # NULL /\ status = "accepted"

cancel_ride_commit(p) ==
    /\ pc[p] = "cancel_ride_commit"
    /\ LET r == loc[p].arg IN
       /\ rides' = [rides EXCEPT ![r].status = "cancelled"]
       /\ \E synced \in BOOLEAN :
            is_available' = IF cancel_ride_releases(loc[p], synced) /\ loc[p].driver \in Drivers
                            THEN [is_available EXCEPT ![loc[p].driver] = TRUE]
                            ELSE is_available
    /\ Return(p, 200)
    /\ UNCHANGED <<wins, walletVars>>

(***************************************************************************)
(* POST /rides/offer                                                       *)
(* current_user is loaded by get_current_user; the ride row is committed   *)
(* first and the driver's availability in a second commit.                 *)
(***************************************************************************)
offer_ride_check(u) ==
    IF role(u) # "driver" THEN 403
    ELSE IF ~is_available[u] THEN 400
    ELSE 200

offer_ride_fare(D) ==
    LET estimated_duration == (D * 2) \div 1000
        base_fare == 50
        distance_fare == (D * 15) \div 100
        time_fare == estimated_duration * 1
    IN  [estimated_distance |-> D, estimated_duration |-> estimated_duration,
         base_fare |-> base_fare, distance_fare |-> distance_fare,
         time_fare |-> time_fare, total_fare |-> base_fare + distance_fare + time_fare]

offer_ride(p, u, D) ==
    /\ pc[p] = "idle"
    /\ IF Inactive(u)
       THEN /\ Return(p, 400)
            /\ UNCHANGED <<rideVars, walletVars>>
       ELSE
            /\ Len(rides) + Cardinality(Inserting) < MaxRides
            /\ LET code == offer_ride_check(u) IN
               IF code # 200
               THEN Return(p, code)
               ELSE Await(p, "offer_ride_insert", [NoLoc EXCEPT !.user = u, !.dist = D])
            /\ UNCHANGED <<rideVars, walletVars>>

offer_ride_insert(p) ==
    /\ pc[p] = "offer_ride_insert"
    /\ rides' = Append(rides, Ride(NULL, loc[p].user, "offered", offer_ride_fare(loc[p].dist)))
    /\ Await(p, "offer_ride_commit", [loc[p] EXCEPT !.arg = Len(rides) + 1])
    /\ UNCHANGED <<is_available, wins, walletVars>>

offer_ride_commit(p) ==
    /\ pc[p] = "offer_ride_commit"
    /\ is_available' = [is_available EXCEPT ![loc[p].user] = FALSE]
    /\ Return(p, 200)
    /\ UNCHANGED <<rides, wins, walletVars>>

(***************************************************************************)
(* POST /rides/{ride_id}/accept-offer                                      *)
(***************************************************************************)
accept_ride_offer_check(u, r) ==
    IF role(u) = "driver" THEN 403
    ELSE IF ~Exists(r) THEN 404
    ELSE IF rides[r].status # "offered" THEN 400
    ELSE 200

accept_ride_offer(p, u, r) ==
    /\ pc[p] = "idle"
    /\ IF Inactive(u)
       THEN /\ Return(p, 400)
            /\ UNCHANGED <<rideVars, walletVars>>
       ELSE
            /\ LET code == accept_ride_offer_check(u, r) IN
               IF code # 200
               THEN Return(p, code)
               ELSE Await(p, "accept_ride_offer_commit", [NoLoc EXCEPT !.user = u, !.arg = r])
            /\ UNCHANGED <<rideVars, walletVars>>

accept_ride_offer_commit(p) ==
    /\ pc[p] = "accept_ride_offer_commit"
    /\ LET u == loc[p].user
           r == loc[p].arg
       IN /\ rides' = [rides EXCEPT ![r].rider_id = u, ![r].status = "accepted"]
          /\ wins' = [wins EXCEPT ![r] = Append(@, u)]
    /\ Return(p, 200)
    /\ UNCHANGED <<is_available, walletVars>>

(***************************************************************************)
(* POST /rides/{ride_id}/cancel-offer                                      *)
(***************************************************************************)
cancel_ride_offer_check(u, r) ==
    IF role(u) # "driver" THEN 403
    ELSE IF ~Exists(r) THEN 404
    ELSE IF rides[r].status # "offered" THEN 400
    ELSE IF u # rides[r].driver_id THEN 403
    ELSE 200

cancel_ride_offer(p, u, r) ==
    /\ pc[p] = "idle"
    /\ IF Inactive(u)
       THEN /\ Return(p, 400)
            /\ UNCHANGED <<rideVars, walletVars>>
       ELSE
            /\ LET code == cancel_ride_offer_check(u, r) IN
               IF code # 200
               THEN Return(p, code)
               ELSE Await(p, "cancel_ride_offer_commit", [NoLoc EXCEPT !.user = u, !.arg = r])
            /\ UNCHANGED <<rideVars, walletVars>>

cancel_ride_offer_commit(p) ==
    /\ pc[p] = "cancel_ride_offer_commit"
    /\ rides' = [rides EXCEPT ![loc[p].arg].status = "cancelled"]
    /\ is_available' = [is_available EXCEPT ![loc[p].user] = TRUE]
    /\ Return(p, 200)
    /\ UNCHANGED <<wins, walletVars>>

(***************************************************************************)
(* GET /rides/estimate-fare: no database session, nothing is stored        *)
(***************************************************************************)
FareEstimate(D) ==
    LET estimated_duration == (D * 2) \div 1000
        base_fare == 50
        distance_fare == (D * 15) \div 100
        time_fare == estimated_duration * 1
    IN  [estimated_distance |-> D, estimated_duration |-> estimated_duration,
         base_fare |-> base_fare, distance_fare |-> distance_fare,
         time_fare |-> time_fare, total_fare |-> base_fare + distance_fare + time_fare]

estimate_fare(p, u, D) ==
    /\ pc[p] = "idle"
    /\ Respond(p, 200, "", NoBalance, {FareEstimate(D)}, << >>)
    /\ UNCHANGED <<rideVars, walletVars, geoVars>>

(***************************************************************************)
(* POST /rides/drivers/set-available and PUT /users/driver-profile         *)
(***************************************************************************)
set_driver_available(p, u) ==
    /\ pc[p] = "idle"
    /\ IF Inactive(u)
       THEN /\ Return(p, 400)
            /\ UNCHANGED <<rideVars, walletVars>>
       ELSE
            /\ IF role(u) # "driver"
               THEN UNCHANGED is_available
               ELSE is_available' = [is_available EXCEPT ![u] = TRUE]
            /\ Return(p, IF role(u) # "driver" THEN 403 ELSE 200)
            /\ UNCHANGED <<rides, wins, walletVars>>

\* avail is the is_available field of DriverUpdate; the other fields are
\* not ride, availability or wallet state
update_driver_profile(p, u, avail) ==
    /\ pc[p] = "idle"
    /\ IF Inactive(u)
       THEN /\ Return(p, 400)
            /\ UNCHANGED <<rideVars, walletVars>>
       ELSE
            /\ IF role(u) # "driver"
               THEN UNCHANGED is_available
               ELSE is_available' = [is_available EXCEPT ![u] = avail]
            /\ Return(p, IF role(u) # "driver" THEN 403 ELSE 200)
            /\ UNCHANGED <<rides, wins, walletVars>>

(***************************************************************************)
(* Accounts.  get_current_user turns away a caller whose is_active is      *)
(* false; the admin endpoints are behind check_admin_access.               *)
(***************************************************************************)

\* POST /admin/users/{user_id}/ban
ban_user(p, u, d) ==
    /\ pc[p] = "idle"
    /\ IF role(u) # "admin"
       THEN Return(p, 403)
       ELSE /\ user_status' = [user_status EXCEPT ![d] = "suspended"]
            /\ is_active' = [is_active EXCEPT ![d] = FALSE]
            /\ Respond(p, 200, "", NoBalance, {}, << >>)
            /\ UNCHANGED <<current_longitude, updated_at, clock, kycVars, otpVars>>
    /\ UNCHANGED <<rideVars, walletVars>>

\* POST /admin/users/{user_id}/unban
unban_user(p, u, d) ==
    /\ pc[p] = "idle"
    /\ IF role(u) # "admin"
       THEN Return(p, 403)
       ELSE /\ user_status' = [user_status EXCEPT ![d] = "active"]
            /\ is_active' = [is_active EXCEPT ![d] = TRUE]
            /\ Respond(p, 200, "", NoBalance, {}, << >>)
            /\ UNCHANGED <<current_longitude, updated_at, clock, kycVars, otpVars>>
    /\ UNCHANGED <<rideVars, walletVars>>

(***************************************************************************)
(* POST /admin/drivers/{driver_id}/approve: the status is tested on the    *)
(* row as it was read, the UPDATE is by id only.                           *)
(***************************************************************************)
approve_driver_check(u, d) ==
    IF role(u) # "admin" THEN 403
    ELSE IF role(d) # "driver" THEN 400
    ELSE IF user_status[d] # "pending" THEN 400
    ELSE 200

approve_driver(p, u, d, approved) ==
    /\ pc[p] = "idle"
    /\ LET code == approve_driver_check(u, d)
           new_status == IF approved THEN "active" ELSE "suspended"
       IN  IF code # 200
           THEN Return(p, code)
           ELSE Await(p, "approve_driver_commit",
                      [NoLoc EXCEPT !.user = u, !.driver = d, !.status = new_status])
    /\ UNCHANGED <<rideVars, walletVars>>

approve_driver_commit(p) ==
    /\ pc[p] = "approve_driver_commit"
    /\ LET d == loc[p].driver IN
       /\ user_status' = [user_status EXCEPT ![d] = loc[p].status]
       /\ is_verified' = [is_verified EXCEPT ![d] = (loc[p].status = "active")]
    /\ Respond(p, 200, "", NoBalance, {}, << >>)
    /\ UNCHANGED <<rideVars, walletVars, is_active, current_longitude, updated_at, clock,
                   kyc_applications, otpVars>>

(***************************************************************************)
(* POST /kyc/application and POST /kyc/admin/application/{id}/review       *)
(***************************************************************************)
KYCStatus == {"pending", "approved", "rejected"}

KYCApplication(user) == [user_id |-> user, status |-> "pending"]

submit_kyc_application(p, u) ==
    /\ pc[p] = "idle"
    /\ IF Inactive(u)
       THEN Return(p, 400)
       ELSE IF \E a \in 1..Len(kyc_applications) :
                  kyc_applications[a].user_id = u /\ kyc_applications[a].status = "pending"
       THEN Return(p, 400)
       ELSE /\ Len(kyc_applications) < MaxApplications
            /\ kyc_applications' = Append(kyc_applications, KYCApplication(u))
            /\ Respond(p, 200, "", NoBalance, {}, << >>)
            /\ UNCHANGED <<user_status, is_active, current_longitude, updated_at, clock,
                           is_verified, otpVars>>
    /\ UNCHANGED <<rideVars, walletVars>>

review_kyc_application_check(u, a) ==
    IF role(u) # "admin" THEN 403
    ELSE IF a \notin 1..Len(kyc_applications) THEN 404
    ELSE IF kyc_applications[a].status # "pending" THEN 400
    ELSE 200

review_kyc_application(p, u, a, approved) ==
    /\ pc[p] = "idle"
    /\ LET code == review_kyc_application_check(u, a)
           new_status == IF approved THEN "approved" ELSE "rejected"
       IN  IF code # 200
           THEN Return(p, code)
           ELSE Await(p, "review_kyc_application_commit",
                      [NoLoc EXCEPT !.user = u, !.arg = a, !.status = new_status,
                                    !.driver = kyc_applications[a].user_id])
    /\ UNCHANGED <<rideVars, walletVars>>

review_kyc_application_commit(p) ==
    /\ pc[p] = "review_kyc_application_commit"
    /\ LET a == loc[p].arg
           d == loc[p].driver
       IN  /\ kyc_applications' = [kyc_applications EXCEPT ![a].status = loc[p].status]
           /\ IF loc[p].status = "approved"
              THEN /\ user_status' = [user_status EXCEPT ![d] = "active"]
                   /\ is_verified' = [is_verified EXCEPT ![d] = TRUE]
              ELSE UNCHANGED <<user_status, is_verified>>
    /\ Respond(p, 200, "", NoBalance, {}, << >>)
    /\ UNCHANGED <<rideVars, walletVars, is_active, current_longitude, updated_at, clock,
                   otpVars>>

(***************************************************************************)
(* One-time passwords.  OTPManager keeps its counters in the memory of the *)
(* process; the OTP itself is a column of the user.  The routes have no    *)
(* caller: the identifier is the e-mail address in the request.            *)
(***************************************************************************)
OTP_EXPIRY_MINUTES == 10
MAX_OTP_ATTEMPTS == 3
RESEND_DELAY_SECONDS == 60

\* the steps by which time.time() advances
Ticks == {60, 600}

accountVars == <<user_status, is_active, current_longitude, updated_at, clock, kycVars>>

TimePasses(dt) ==
    /\ now + dt <= MaxTime
    /\ now' = now + dt
    /\ UNCHANGED <<rideVars, walletVars, accountVars, pc, loc, resp, detail, body, quote, found,
                   otp_attempts, last_sent, otp, otp_valid_until, otp_verified>>

\* OTPManager.generate_otp up to "Generate OTP": the error it raises, "" if none
generate_otp_unlimited(identifier) ==
    IF last_sent[identifier] # NoTime /\ now - last_sent[identifier] < RESEND_DELAY_SECONDS
    THEN "Please wait before requesting new OTP"
    ELSE ""

generate_otp(identifier) ==
    IF last_sent[identifier] # NoTime /\ now - last_sent[identifier] < RESEND_DELAY_SECONDS
    THEN "Please wait before requesting new OTP"
    ELSE IF otp_attempts[identifier] >= MAX_OTP_ATTEMPTS
    THEN "Maximum OTP attempts reached. Please try again later."
    ELSE ""

\* POST /auth/request-otp; digits is the OTP that random.choice draws
request_otp(p, email, digits) ==
    /\ pc[p] = "idle"
    /\ IF generate_otp(email) # ""
       THEN /\ Respond(p, 429, generate_otp(email), NoBalance, {}, << >>)
            /\ UNCHANGED otpVars
       ELSE /\ last_sent' = [last_sent EXCEPT ![email] = now]
            /\ otp_attempts' = [otp_attempts EXCEPT ![email] = @ + 1]
            /\ otp' = [otp EXCEPT ![email] = digits]
            /\ otp_valid_until' = [otp_valid_until EXCEPT ![email] = now + OTP_EXPIRY_MINUTES * 60]
            /\ otp_verified' = [otp_verified EXCEPT ![email] = FALSE]
            /\ Respond(p, 200, "", NoBalance, {}, << >>)
            /\ UNCHANGED now
    /\ UNCHANGED <<rideVars, walletVars, accountVars>>

\* OTPManager.verify_otp without its side effect: "valid", "invalid" or "expired"
OTPManager_verify_otp(stored_otp, provided_otp, valid_until) ==
    IF stored_otp = NoOtp \/ provided_otp = NoOtp \/ valid_until = NoTime THEN "invalid"
    ELSE IF now > valid_until THEN "expired"
    ELSE IF stored_otp = provided_otp THEN "valid"
    ELSE "invalid"

\* the part of a route after the user row was loaded: the manager's check and
\* its reset of the counters, then the writes to the row and the commit
otp_commit(p) ==
    LET email == loc[p].user
        is_valid == OTPManager_verify_otp(loc[p].otp, loc[p].arg, loc[p].otp_valid_until)
    IN  /\ IF is_valid = "valid" /\ otp_attempts[email] > 0
           THEN /\ otp_attempts' = [otp_attempts EXCEPT ![email] = 0]
                /\ last_sent' = [last_sent EXCEPT ![email] = NoTime]
           ELSE UNCHANGED <<otp_attempts, last_sent>>
        /\ IF is_valid = "valid"
           THEN /\ otp_verified' = [otp_verified EXCEPT ![email] = TRUE]
                /\ otp' = [otp EXCEPT ![email] = NoOtp]
                /\ otp_valid_until' = [otp_valid_until EXCEPT ![email] = NoTime]
                /\ Respond(p, 200, "", NoBalance, {}, << >>)
           ELSE /\ UNCHANGED <<otp_verified, otp, otp_valid_until>>
                /\ Respond(p, 400, IF is_valid = "expired"
                                   THEN "OTP has expired. Please request a new one."
                                   ELSE "Invalid or expired OTP", NoBalance, {}, << >>)
        /\ UNCHANGED <<now, rideVars, walletVars, accountVars>>

\* POST /auth/verify-otp
verify_otp(p, email, provided_otp) ==
    /\ pc[p] = "idle"
    /\ Await(p, "verify_otp_commit",
             [NoLoc EXCEPT !.user = email, !.arg = provided_otp, !.otp = otp[email],
                           !.otp_valid_until = otp_valid_until[email]])
    /\ UNCHANGED <<rideVars, walletVars>>

verify_otp_commit(p) ==
    /\ pc[p] = "verify_otp_commit"
    /\ otp_commit(p)

\* POST /auth/login-with-otp
login_with_otp(p, email, provided_otp) ==
    /\ pc[p] = "idle"
    /\ Await(p, "login_with_otp_commit",
             [NoLoc EXCEPT !.user = email, !.arg = provided_otp, !.otp = otp[email],
                           !.otp_valid_until = otp_valid_until[email]])
    /\ UNCHANGED <<rideVars, walletVars>>

login_with_otp_commit(p) ==
    /\ pc[p] = "login_with_otp_commit"
    /\ otp_commit(p)

(***************************************************************************)
(* POST /admin/rides/{ride_id}/assign                                      *)
(* The status test names RideStatus.REQUESTED and the update               *)
(* RideStatus.ACCEPTED; the members of the enum are spelled in lower case, *)
(* so the attribute access raises AttributeError.                          *)
(***************************************************************************)
manually_assign_ride_check(u, r, d) ==
    IF role(u) # "admin" THEN 403
    ELSE IF ~Exists(r) THEN 404
    ELSE IF "REQUESTED" \notin RideStatus THEN 500
    ELSE IF rides[r].status # "REQUESTED" THEN 400
    ELSE IF role(d) # "driver" THEN 400
    ELSE IF ~is_available[d] THEN 400
    ELSE IF "ACCEPTED" \notin RideStatus THEN 500
    ELSE 200

manually_assign_ride(p, u, r, d) ==
    /\ pc[p] = "idle"
    /\ LET code == manually_assign_ride_check(u, r, d) IN
       /\ Return(p, code)
       /\ rides' = IF code = 200
                   THEN [rides EXCEPT ![r].driver_id = d, ![r].status = "ACCEPTED"]
                   ELSE rides
       /\ is_available' = IF code = 200 THEN [is_available EXCEPT ![d] = FALSE] ELSE is_available
    /\ UNCHANGED <<wins, walletVars>>

(***************************************************************************)
(* Positions.  The model keeps the drivers on the equator: a position is a *)
(* longitude in degrees, and distances and radii are in degrees of arc     *)
(* (metres divided by the length of one degree of the equator).  There the *)
(* haversine distance is the shorter way round the circle, and the box of  *)
(* the query is longitude - radius .. longitude + radius.                  *)
(***************************************************************************)
\* callers of the specification of positions: the administrator and a rider
\* for the admin endpoints, the drivers and a rider for the positions, a rider
\* and a driver for the queries
Officers == {1, 5}
Movers == {1, 3, 4}
Askers == {1, 3}

Lons == {-180, 0, 180}
Radii == {0, 180}
Skips == {0, 1}
Limits == {1, 2}

calculate_distance(lon1, lon2) ==
    LET delta_lon == IF lon2 >= lon1 THEN lon2 - lon1 ELSE lon1 - lon2
    IN  IF delta_lon > 180 THEN 360 - delta_lon ELSE delta_lon

\* the WHERE clause of the query without the four comparisons of the box
Eligible(d) ==
    /\ is_available[d]
    /\ is_active[d]
    /\ user_status[d] = "active"
    /\ current_longitude[d] # NoPosition

\* a box whose two corners are exchanged
InBox_swapped(d, longitude, radius) ==
    /\ current_longitude[d] >= longitude + radius
    /\ current_longitude[d] <= longitude - radius

InBox(d, longitude, radius) ==
    /\ current_longitude[d] >= longitude - radius
    /\ current_longitude[d] <= longitude + radius

\* the orders in which the database may return the rows of a set of drivers
ScanOrders(S) ==
    {order \in [1..Cardinality(S) -> S] :
        \A i, j \in 1..Cardinality(S) : i # j => order[i] # order[j]}

\* list.sort(key=distance): stable, ascending
RECURSIVE SortByDistance(_)
SortByDistance(list) ==
    IF list = << >> THEN << >>
    ELSE LET x == list[Len(list)]
             front == SortByDistance(SubSeq(list, 1, Len(list) - 1))
             k == Cardinality({i \in 1..Len(front) : front[i].distance <= x.distance})
         IN  SubSeq(front, 1, k) \o <<x>> \o SubSeq(front, k + 1, Len(front))

\* the loop over the rows: exact distance, filter by the radius, then the sort
RECURSIVE WithinRadius(_, _, _)
WithinRadius(order, longitude, radius) ==
    IF order = << >> THEN << >>
    ELSE LET driver == Head(order)
             distance == calculate_distance(longitude, current_longitude[driver])
             rest == WithinRadius(Tail(order), longitude, radius)
         IN  IF distance <= radius
             THEN <<[driver_id |-> driver, distance |-> distance]>> \o rest
             ELSE rest

nearby_drivers(order, longitude, radius) == SortByDistance(WithinRadius(order, longitude, radius))

\* GET /locations/nearby-drivers
get_nearby_drivers(p, u, longitude, radius) ==
    /\ pc[p] = "idle"
    /\ IF Inactive(u)
       THEN Return(p, 400)
       ELSE /\ \E order \in ScanOrders({d \in Drivers : Eligible(d) /\ InBox(d, longitude, radius)}) :
                 Respond(p, 200, "", NoBalance, {}, nearby_drivers(order, longitude, radius))
            /\ UNCHANGED geoVars
    /\ UNCHANGED <<rideVars, walletVars>>

\* GET /rides/nearby-drivers: the same query, then nearby_drivers[skip : skip + limit]
get_nearby_drivers_for_ride(p, u, longitude, radius, skip, limit) ==
    /\ pc[p] = "idle"
    /\ IF Inactive(u)
       THEN Return(p, 400)
       ELSE /\ \E order \in ScanOrders({d \in Drivers : Eligible(d) /\ InBox(d, longitude, radius)}) :
                 LET all == nearby_drivers(order, longitude, radius)
                     last == IF skip + limit < Len(all) THEN skip + limit ELSE Len(all)
                 IN  Respond(p, 200, "", NoBalance, {}, SubSeq(all, skip + 1, last))
            /\ UNCHANGED geoVars
    /\ UNCHANGED <<rideVars, walletVars>>

(***************************************************************************)
(* POST /locations/update-location                                         *)
(* The handler takes datetime.utcnow() while it builds the UPDATE, then    *)
(* executes and commits it.  Callers who are not drivers write nothing.    *)
(***************************************************************************)
update_location(p, u, longitude) ==
    /\ pc[p] = "idle"
    /\ IF Inactive(u)
       THEN Return(p, 400)
       ELSE IF role(u) # "driver"
       THEN Return(p, 200)
       ELSE /\ clock < MaxClock
            /\ clock' = clock + 1
            /\ Suspend(p, "update_location_commit",
                       [NoLoc EXCEPT !.user = u, !.arg = longitude, !.idx = clock + 1])
            /\ UNCHANGED <<user_status, is_active, current_longitude, updated_at, kycVars, otpVars>>
    /\ UNCHANGED <<rideVars, walletVars>>

\* a commit that also marks the driver available
update_location_commit_online(p) ==
    /\ pc[p] = "update_location_commit"
    /\ current_longitude' = [current_longitude EXCEPT ![loc[p].user] = loc[p].arg]
    /\ updated_at' = [updated_at EXCEPT ![loc[p].user] = loc[p].idx]
    /\ is_available' = [is_available EXCEPT ![loc[p].user] = TRUE]
    /\ Respond(p, 200, "", NoBalance, {}, << >>)
    /\ UNCHANGED <<rides, wins, walletVars, user_status, is_active, clock, kycVars, otpVars>>

update_location_commit(p) ==
    /\ pc[p] = "update_location_commit"
    /\ current_longitude' = [current_longitude EXCEPT ![loc[p].user] = loc[p].arg]
    /\ updated_at' = [updated_at EXCEPT ![loc[p].user] = loc[p].idx]
    /\ Respond(p, 200, "", NoBalance, {}, << >>)
    /\ UNCHANGED <<rideVars, walletVars, user_status, is_active, clock, kycVars, otpVars>>

----------------------------------------------------------------------------
\* the rider asks, a driver accepts
NextRequests ==
    \E p \in Procs :
        \/ \E u \in Users, D \in OneRoute : request_ride(p, u, D)
        \/ \E u \in Users, r \in RideIds : accept_ride(p, u, r)
        \/ accept_ride_commit(p)
        \/ \E u \in Users, r \in RideIds : start_ride(p, u, r)
        \/ \E u \in Users, r \in RideIds : complete_ride(p, u, r)
        \/ \E u \in Users, r \in RideIds : cancel_ride(p, u, r)
        \/ cancel_ride_commit(p)
        \/ \E u \in Users : set_driver_available(p, u)
        \/ \E u \in Users, avail \in BOOLEAN : update_driver_profile(p, u, avail)

\* the driver offers, a rider accepts
NextOffers ==
    \E p \in Procs :
        \/ \E u \in Users, D \in OneRoute : offer_ride(p, u, D)
        \/ offer_ride_insert(p)
        \/ offer_ride_commit(p)
        \/ \E u \in Users, r \in RideIds : accept_ride_offer(p, u, r)
        \/ accept_ride_offer_commit(p)
        \/ \E u \in Users, r \in RideIds : start_ride(p, u, r)
        \/ \E u \in Users, r \in RideIds : complete_ride(p, u, r)
        \/ \E u \in Users, r \in RideIds : cancel_ride(p, u, r)
        \/ cancel_ride_commit(p)
        \/ \E u \in Users, r \in RideIds : cancel_ride_offer(p, u, r)
        \/ cancel_ride_offer_commit(p)
        \/ \E u \in Users : set_driver_available(p, u)
        \/ \E u \in Users, avail \in BOOLEAN : update_driver_profile(p, u, avail)

\* requests, acceptances and cancellations with an administrator among the callers
NextCancel ==
    \E p \in Procs :
        \/ \E u \in Callers, D \in OneRoute : request_ride(p, u, D)
        \/ \E u \in Callers, r \in RideIds : accept_ride(p, u, r)
        \/ accept_ride_commit(p)
        \/ \E u \in Callers, r \in RideIds : cancel_ride(p, u, r)
        \/ cancel_ride_commit(p)

\* positions, accounts and the nearby-drivers queries
NextGeo ==
    \E p \in Procs :
        \/ \E u \in Officers, d \in Drivers : ban_user(p, u, d)
        \/ \E u \in Officers, d \in Drivers : unban_user(p, u, d)
        \/ \E u \in Movers : set_driver_available(p, u)
        \/ \E u \in Movers, longitude \in Lons : update_location(p, u, longitude)
        \/ update_location_commit(p)
        \/ \E u \in Askers, longitude \in Lons, radius \in Radii :
              get_nearby_drivers(p, u, longitude, radius)
        \/ \E u \in Askers \cap Riders, longitude \in Lons, radius \in Radii,
                 skip \in Skips, limit \in Limits :
              get_nearby_drivers_for_ride(p, u, longitude, radius, skip, limit)

\* fares: the estimate and the two handlers that store a fare
NextFare ==
    \E p \in Procs :
        \/ \E u \in Users, D \in Distances : estimate_fare(p, u, D)
        \/ \E u \in Users, D \in Distances : request_ride(p, u, D)
        \/ \E u \in Users : set_driver_available(p, u)
        \/ \E u \in Users, D \in Distances : offer_ride(p, u, D)
        \/ offer_ride_insert(p)
        \/ offer_ride_commit(p)

\* every handler that writes the table rides, with the calls of both flows
\* interleaved
NextRides ==
    \E p \in Procs :
        \/ \E u \in RideCallers, D \in OneRoute : request_ride(p, u, D)
        \/ \E u \in RideCallers, D \in OneRoute : offer_ride(p, u, D)
        \/ offer_ride_insert(p)
        \/ offer_ride_commit(p)
        \/ \E u \in RideCallers, r \in RideIds : accept_ride(p, u, r)
        \/ accept_ride_commit(p)
        \/ \E u \in RideCallers, r \in RideIds : accept_ride_offer(p, u, r)
        \/ accept_ride_offer_commit(p)
        \/ \E u \in RideCallers, r \in RideIds : start_ride(p, u, r)
        \/ \E u \in RideCallers, r \in RideIds : complete_ride(p, u, r)
        \/ \E u \in RideCallers, r \in RideIds : cancel_ride(p, u, r)
        \/ cancel_ride_commit(p)
        \/ \E u \in RideCallers, r \in RideIds : cancel_ride_offer(p, u, r)
        \/ cancel_ride_offer_commit(p)
        \/ \E u \in RideCallers, r \in RideIds, d \in Drivers : manually_assign_ride(p, u, r, d)
        \/ \E u \in RideCallers : set_driver_available(p, u)

SpecRequests == Init /\ [][NextRequests]_vars
SpecRides == Init /\ [][NextRides]_vars
SpecGeo == Init /\ [][NextGeo]_vars
SpecFare == Init /\ [][NextFare]_vars
SpecCancel == Init /\ [][NextCancel]_vars
SpecOffers == Init /\ [][NextOffers]_vars

----------------------------------------------------------------------------
(***************************************************************************)
(* Wallet ledger.  A row of transactions is [type, amount, status].        *)
(***************************************************************************)
Transaction(type, amount, status) == [type |-> type, amount |-> amount, status |-> status]

HasWallet(u) == wallets[u] # NoWallet

\* calls in flight that will still append a row to the table transactions
Appending == {p \in Procs : pc[p] \in {"add_money_create", "add_money_txn", "deduct_commit"}}

RECURSIVE Rows(_)
Rows(S) == IF S = {} THEN 0 ELSE LET u == CHOOSE x \in S : TRUE IN Len(txns[u]) + Rows(S \ {u})

\* the model stops taking calls that append once the table would pass MaxTxns rows
RoomForTxn == Rows(Users) + Cardinality(Appending) < MaxTxns

(***************************************************************************)
(* wallets.user_id is unique: the INSERT of a second wallet row for the     *)
(* same user raises IntegrityError at the commit, which get_db turns into a *)
(* rollback and the client sees as 500.                                     *)
(***************************************************************************)
\* a table wallets without the unique constraint
IntegrityError_never(u) == FALSE

IntegrityError(u) == wallet_rows[u] > 0

(***************************************************************************)
(* GET /wallet/balance                                                     *)
(* After the wallet is created the handler refreshes it and returns its    *)
(* balance.                                                                *)
(***************************************************************************)
\* get_wallet_balance without the test for an existing wallet
get_wallet_balance_always_create(p, u) ==
    /\ pc[p] = "idle"
    /\ Await(p, "get_wallet_balance_create", [NoLoc EXCEPT !.user = u])
    /\ UNCHANGED <<rideVars, walletVars>>

get_wallet_balance(p, u) ==
    /\ pc[p] = "idle"
    /\ IF Inactive(u)
       THEN /\ Return(p, 400)
            /\ UNCHANGED <<rideVars, walletVars>>
       ELSE
            /\ IF HasWallet(u)
               THEN ReturnBody(p, 200, "", wallets[u])
               ELSE Await(p, "get_wallet_balance_create", [NoLoc EXCEPT !.user = u])
            /\ UNCHANGED <<rideVars, walletVars>>

get_wallet_balance_create(p) ==
    /\ pc[p] = "get_wallet_balance_create"
    /\ LET u == loc[p].user IN
       IF IntegrityError(u)
       THEN /\ Return(p, 500)
            /\ UNCHANGED <<wallets, wallet_rows>>
       ELSE /\ wallets' = [wallets EXCEPT ![u] = 0]
            /\ wallet_rows' = [wallet_rows EXCEPT ![u] = @ + 1]
            /\ ReturnBody(p, 200, "", 0)
    /\ UNCHANGED <<rideVars, txns>>

(***************************************************************************)
(* POST /wallet/add-money: up to four commits                              *)
(***************************************************************************)
add_money_to_wallet(p, u, amount) ==
    /\ pc[p] = "idle"
    /\ IF Inactive(u)
       THEN /\ Return(p, 400)
            /\ UNCHANGED <<rideVars, walletVars>>
       ELSE
            /\ RoomForTxn
            /\ HasWallet(u) => wallets[u] + amount <= MaxBalance
            /\ IF amount <= 0
               THEN Return(p, 422)
               ELSE IF HasWallet(u)
               THEN Await(p, "add_money_txn", [NoLoc EXCEPT !.user = u, !.arg = amount, !.bal = wallets[u]])
               ELSE Await(p, "add_money_create", [NoLoc EXCEPT !.user = u, !.arg = amount])
            /\ UNCHANGED <<rideVars, walletVars>>

add_money_create(p) ==
    /\ pc[p] = "add_money_create"
    /\ LET u == loc[p].user IN
       IF IntegrityError(u)
       THEN /\ Return(p, 500)
            /\ UNCHANGED <<wallets, wallet_rows>>
       ELSE /\ wallets' = [wallets EXCEPT ![u] = 0]
            /\ wallet_rows' = [wallet_rows EXCEPT ![u] = @ + 1]
            /\ Await(p, "add_money_txn", [loc[p] EXCEPT !.bal = 0])
    /\ UNCHANGED <<rideVars, txns>>

add_money_txn(p) ==
    /\ pc[p] = "add_money_txn"
    /\ LET u == loc[p].user IN
       /\ txns' = [txns EXCEPT ![u] = Append(@, Transaction("credit", loc[p].arg, "pending"))]
       /\ Await(p, "add_money_balance", [loc[p] EXCEPT !.idx = Len(txns[u]) + 1])
    /\ UNCHANGED <<rideVars, wallets, wallet_rows>>

add_money_balance(p) ==
    /\ pc[p] = "add_money_balance"
    /\ wallets' = [wallets EXCEPT ![loc[p].user] = loc[p].bal + loc[p].arg]
    /\ Await(p, "add_money_complete", loc[p])
    /\ UNCHANGED <<rideVars, txns, wallet_rows>>

add_money_complete(p) ==
    /\ pc[p] = "add_money_complete"
    /\ txns' = [txns EXCEPT ![loc[p].user][loc[p].idx].status = "completed"]
    /\ Return(p, 200)
    /\ UNCHANGED <<rideVars, wallets, wallet_rows>>

(***************************************************************************)
(* POST /wallet/deduct                                                     *)
(***************************************************************************)
\* deduct without the comparison of the balance with the amount
deduct_check_unchecked(u, amount) ==
    IF amount <= 0 THEN [code |-> 400, detail |-> "Amount must be greater than 0"]
    ELSE IF ~HasWallet(u) THEN [code |-> 404, detail |-> "Wallet not found"]
    ELSE [code |-> 200, detail |-> ""]

\* deduct with the comparison off by one
deduct_check_off_by_one(u, amount) ==
    IF amount <= 0 THEN [code |-> 400, detail |-> "Amount must be greater than 0"]
    ELSE IF ~HasWallet(u) THEN [code |-> 404, detail |-> "Wallet not found"]
    ELSE IF wallets[u] + 1 < amount THEN [code |-> 400, detail |-> "Insufficient wallet balance"]
    ELSE [code |-> 200, detail |-> ""]

deduct_check(u, amount) ==
    IF amount <= 0 THEN [code |-> 400, detail |-> "Amount must be greater than 0"]
    ELSE IF ~HasWallet(u) THEN [code |-> 404, detail |-> "Wallet not found"]
    ELSE IF wallets[u] < amount THEN [code |-> 400, detail |-> "Insufficient wallet balance"]
    ELSE [code |-> 200, detail |-> ""]

deduct_from_wallet(p, u, amount) ==
    /\ pc[p] = "idle"
    /\ IF Inactive(u)
       THEN /\ Return(p, 400)
            /\ UNCHANGED <<rideVars, walletVars>>
       ELSE
            /\ RoomForTxn
            /\ LET check == deduct_check(u, amount) IN
               IF check.code # 200
               THEN ReturnWith(p, check.code, check.detail)
               ELSE Await(p, "deduct_commit", [NoLoc EXCEPT !.user = u, !.arg = amount, !.bal = wallets[u]])
            /\ UNCHANGED <<rideVars, walletVars>>

deduct_commit(p) ==
    /\ pc[p] = "deduct_commit"
    /\ LET u == loc[p].user IN
       /\ txns' = [txns EXCEPT ![u] = Append(@, Transaction("debit", loc[p].arg, "completed"))]
       /\ wallets' = [wallets EXCEPT ![u] = loc[p].bal - loc[p].arg]
    /\ Return(p, 200)
    /\ UNCHANGED <<rideVars, wallet_rows>>

NextWallet ==
    \E p \in Procs :
        \/ \E u \in WalletOwners : get_wallet_balance(p, u)
        \/ get_wallet_balance_create(p)
        \/ \E u \in WalletOwners, amount \in Amounts : add_money_to_wallet(p, u, amount)
        \/ add_money_create(p)
        \/ add_money_txn(p)
        \/ add_money_balance(p)
        \/ add_money_complete(p)
        \/ \E u \in WalletOwners, amount \in Amounts : deduct_from_wallet(p, u, amount)
        \/ deduct_commit(p)

SpecWallet == Init /\ [][NextWallet]_vars

\* a ride from request to accept, with position reports and a wallet beside it
NextTrip ==
    \E p \in Procs :
        \/ \E u \in TripCallers, D \in OneRoute : request_ride(p, u, D)
        \/ \E u \in TripCallers : set_driver_available(p, u)
        \/ \E u \in TripCallers, r \in RideIds : accept_ride(p, u, r)
        \/ accept_ride_commit(p)
        \/ \E u \in TripCallers, longitude \in Lons : update_location(p, u, longitude)
        \/ update_location_commit(p)
        \/ \E u \in TripCallers \cap WalletOwners : get_wallet_balance(p, u)
        \/ get_wallet_balance_create(p)

SpecTrip == Init /\ [][NextTrip]_vars

\* the administrator bans and unbans a driver who keeps calling
NextBan ==
    \E p \in Procs :
        \/ \E u \in Admins, d \in BanCallers \cap Drivers : ban_user(p, u, d)
        \/ \E u \in Admins, d \in BanCallers \cap Drivers : unban_user(p, u, d)
        \/ \E u \in BanCallers, D \in OneRoute : request_ride(p, u, D)
        \/ \E u \in BanCallers : set_driver_available(p, u)
        \/ \E u \in BanCallers, r \in RideIds : accept_ride(p, u, r)
        \/ accept_ride_commit(p)
        \/ \E u \in BanCallers, r \in RideIds : cancel_ride(p, u, r)
        \/ cancel_ride_commit(p)
        \/ \E u \in BanCallers, longitude \in OnePlace : update_location(p, u, longitude)
        \/ update_location_commit(p)
        \/ \E u \in BanCallers \cap Drivers : get_wallet_balance(p, u)
        \/ get_wallet_balance_create(p)
        \/ \E u \in BanCallers, longitude \in OnePlace, radius \in Radii :
              get_nearby_drivers(p, u, longitude, radius)

SpecBan == Init /\ [][NextBan]_vars

\* the administrator's decisions on the drivers' accounts
NextApproval ==
    \E p \in Procs :
        \/ \E u \in Officers, d \in Drivers, approved \in BOOLEAN : approve_driver(p, u, d, approved)
        \/ approve_driver_commit(p)
        \/ \E u \in Officers, d \in Drivers : ban_user(p, u, d)
        \/ \E u \in Officers, d \in Drivers : unban_user(p, u, d)
        \/ \E u \in Drivers : submit_kyc_application(p, u)
        \/ \E u \in Officers, a \in 1..MaxApplications, approved \in BOOLEAN :
              review_kyc_application(p, u, a, approved)
        \/ review_kyc_application_commit(p)

SpecApproval == Init /\ [][NextApproval]_vars

\* the OTP routes and the passage of time
NextOtp ==
    \/ \E dt \in Ticks : TimePasses(dt)
    \/ \E p \in Procs :
        \/ \E email \in Identifiers, digits \in Otps : request_otp(p, email, digits)
        \/ \E email \in Identifiers, provided_otp \in Otps : verify_otp(p, email, provided_otp)
        \/ verify_otp_commit(p)
        \/ \E email \in Identifiers, provided_otp \in Otps : login_with_otp(p, email, provided_otp)
        \/ login_with_otp_commit(p)

SpecOtp == Init /\ [][NextOtp]_vars

\* time goes on and the client keeps asking for an OTP and entering it
SpecOtpLive ==
    /\ SpecOtp
    /\ WF_vars(\E dt \in Ticks : TimePasses(dt))
    /\ \A p \in Procs :
        /\ WF_vars(\E email \in Identifiers, digits \in Otps : request_otp(p, email, digits))
        /\ WF_vars(verify_otp_commit(p))
        /\ WF_vars(login_with_otp_commit(p))

----------------------------------------------------------------------------
(***************************************************************************)
(* Properties of the ride lifecycle (SpecRequests, SpecOffers)             *)
(***************************************************************************)
AllIdle == \A p \in Procs : pc[p] = "idle"

Active == {"accepted", "started"}
Terminal == {"completed", "cancelled"}

\* the edges of the lifecycle graph
LifecycleEdges ==
    {<<"requested", "accepted">>, <<"offered", "accepted">>, <<"offered", "cancelled">>,
     <<"accepted", "started">>, <<"started", "completed">>,
     <<"requested", "cancelled">>, <<"accepted", "cancelled">>}

\* C1: of the accept_ride calls that race for one Requested ride exactly one
\* returns success, and while the ride is Accepted its driver_id is that caller.
Winners(r) == {wins[r][i] : i \in 1..Len(wins[r])}

C1_OneDriverWins ==
    \A r \in 1..Len(rides) :
        (wins[r] # << >> /\ wins[r][1] \in Drivers)
            => /\ Winners(r) = {wins[r][1]}
               /\ rides[r].status = "accepted" => rides[r].driver_id = wins[r][1]

\* C2: no driver is the driver_id of two different rides that are both Accepted
\* or Started.
C2_NoDoubleBooking ==
    \A r1, r2 \in 1..Len(rides) :
        (/\ r1 # r2
         /\ rides[r1].status \in Active
         /\ rides[r2].status \in Active
         /\ rides[r1].driver_id # NULL)
            => rides[r1].driver_id # rides[r2].driver_id

\* C3: of the accept_ride_offer calls that race for one Offered ride exactly one
\* returns success, and the ride's rider_id stays that caller.
C3_OneRiderWins ==
    \A r \in 1..Len(rides) :
        (wins[r] # << >> /\ wins[r][1] \in Riders)
            => /\ Winners(r) = {wins[r][1]}
               /\ rides[r].rider_id = wins[r][1]

\* C8: every step that changes a ride row moves its status along an edge of the
\* lifecycle graph (an Accepted row is never written as Accepted again).
C8_LifecycleEdgesOnly ==
    [][\A r \in 1..Len(rides) :
          rides'[r] # rides[r] => <<rides[r].status, rides'[r].status>> \in LifecycleEdges]_vars

\* C9: once a ride is Completed or Cancelled no step changes its status,
\* rider_id or driver_id.
C9_TerminalImmutable ==
    [][\A r \in 1..Len(rides) : rides[r].status \in Terminal => rides'[r] = rides[r]]_vars

\* C10: with one call at a time, a lifecycle call by an entitled caller on a ride
\* whose status is not a legal source for it answers 400 and changes neither
\* rides, availability nor wallets.
Rejected(p) == resp' = 400 /\ pc'[p] = "idle" /\ UNCHANGED <<rideVars, walletVars>>

C10_IllegalTransitionRejected ==
    [][\A p \in Procs, u \in Users, r \in 1..Len(rides) :
          AllIdle =>
            /\ (accept_ride(p, u, r) /\ role(u) = "driver" /\ rides[r].status # "requested")
                  => Rejected(p)
            /\ (accept_ride_offer(p, u, r) /\ role(u) # "driver" /\ rides[r].status # "offered")
                  => Rejected(p)
            /\ (cancel_ride_offer(p, u, r) /\ u = rides[r].driver_id /\ rides[r].status # "offered")
                  => Rejected(p)
            /\ (start_ride(p, u, r) /\ rides[r].status # "accepted") => Rejected(p)
            /\ (complete_ride(p, u, r) /\ rides[r].status # "started") => Rejected(p)
            /\ (cancel_ride(p, u, r) /\ u \in {rides[r].rider_id, rides[r].driver_id}
                  /\ rides[r].status \notin {"requested", "offered", "accepted"})
                  => Rejected(p)]_vars

\* C11: a driver who is the driver_id of an Accepted or Started ride has
\* availability false in every reachable state.
C11_ActiveDriverUnavailable ==
    \A r \in 1..Len(rides) :
        (rides[r].status \in Active /\ rides[r].driver_id \in Drivers)
            => ~is_available[rides[r].driver_id]

\* C12: the commit of cancel_ride on a ride that is Accepted with a driver
\* leaves that driver available, whatever ran between the call's read and its
\* commit.
C12_CancelReleasesDriver ==
    [][\A p \in Procs :
          (/\ cancel_ride_commit(p)
           /\ rides[loc[p].arg].status = "accepted"
           /\ rides[loc[p].arg].driver_id \in Drivers)
              => is_available'[rides[loc[p].arg].driver_id]]_vars

\* C13: start_ride on an Accepted ride answers 200 and the ride is Started.
C13_StartSucceeds ==
    [][\A p \in Procs, u \in Users, r \in 1..Len(rides) :
          (start_ride(p, u, r) /\ rides[r].status = "accepted")
              => (resp' = 200 /\ rides'[r].status = "started")]_vars

\* C14: with one call at a time, complete_ride on a ride that a rider requested
\* and a driver accepted answers 200 and the ride is Completed.
C14_AcceptedRideCompletes ==
    [][\A p \in Procs, u \in Users, r \in 1..Len(rides) :
          (/\ AllIdle
           /\ complete_ride(p, u, r)
           /\ rides[r].status = "accepted"
           /\ rides[r].rider_id \in Riders
           /\ rides[r].driver_id \in Drivers)
              => (resp' = 200 /\ rides'[r].status = "completed")]_vars

(***************************************************************************)
(* Properties of the wallet ledger (checked under SpecWallet)              *)
(***************************************************************************)
RECURSIVE SumOf(_, _)
SumOf(rows, type) ==
    IF rows = << >> THEN 0
    ELSE (IF Head(rows).type = type /\ Head(rows).status = "completed" THEN Head(rows).amount ELSE 0)
         + SumOf(Tail(rows), type)

Replay(u) == SumOf(txns[u], "credit") - SumOf(txns[u], "debit")

\* C4: in every committed state the balance of every wallet is the sum of its
\* completed credits minus the sum of its completed debits.
C4_LedgerReplay == \A u \in Users : HasWallet(u) => wallets[u] = Replay(u)

\* C5: no update is lost: when every call has returned, the balance of every
\* wallet is all committed credits minus all committed debits.
C5_NoLostUpdate == AllIdle => \A u \in Users : HasWallet(u) => wallets[u] = Replay(u)

\* C6: a wallet balance is never negative.
C6_BalanceNonNegative == \A u \in Users : HasWallet(u) => wallets[u] >= 0

\* two debits raced on one balance: more was debited than credited, and the
\* balance is still not negative
C6_Witness ==
    \E u \in Users :
        /\ HasWallet(u)
        /\ AllIdle
        /\ SumOf(txns[u], "debit") > SumOf(txns[u], "credit")
        /\ wallets[u] >= 0

\* C7: a deduct_from_wallet call for more than the balance the wallet has when
\* the call reads it answers 400 and leaves wallets and transactions unchanged.
C7_OverdraftRejected ==
    [][\A p \in Procs, u \in Users, amount \in Amounts :
          (deduct_from_wallet(p, u, amount) /\ HasWallet(u) /\ amount > wallets[u])
              => /\ resp' = 400
                 /\ detail' = "Insufficient wallet balance"
                 /\ pc'[p] = "idle"
                 /\ UNCHANGED walletVars]_vars

\* an overdraft has been refused: a debit was answered 400 "Insufficient wallet
\* balance" and the wallet still holds its one completed credit of 1, nothing else
C7_Witness ==
    /\ AllIdle
    /\ resp = 400
    /\ detail = "Insufficient wallet balance"
    /\ \E u \in Users :
          /\ HasWallet(u)
          /\ wallets[u] = 1
          /\ Len(txns[u]) = 1
          /\ txns[u][1] = Transaction("credit", 1, "completed")

\* C17: in every committed state each transaction row, whatever its status, is
\* matched by its balance change and each balance change by one row: the balance
\* is the credits minus the debits of all rows of the wallet.
RECURSIVE SumRows(_, _)
SumRows(rows, type) ==
    IF rows = << >> THEN 0
    ELSE (IF Head(rows).type = type THEN Head(rows).amount ELSE 0) + SumRows(Tail(rows), type)

C17_RecordWithBalance ==
    \A u \in Users :
        IF HasWallet(u)
        THEN wallets[u] = SumRows(txns[u], "credit") - SumRows(txns[u], "debit")
        ELSE txns[u] = << >>

\* C18: with one call at a time, get_wallet_balance for a user who has a wallet
\* answers 200 with the balance and changes nothing, and for a user who has none
\* it creates a wallet of balance 0 with no transactions and answers 0.
C18_LazyIdempotentRead ==
    [][\A p \in Procs, u \in Users :
          /\ (get_wallet_balance(p, u) /\ HasWallet(u))
                => /\ resp' = 200
                   /\ body' = wallets[u]
                   /\ pc'[p] = "idle"
                   /\ UNCHANGED walletVars
          /\ (get_wallet_balance(p, u) /\ ~HasWallet(u)) => UNCHANGED walletVars
          /\ (/\ get_wallet_balance_create(p)
              /\ loc[p].user = u
              /\ ~HasWallet(u)
              /\ \A q \in Procs \ {p} : pc[q] = "idle")
                => /\ resp' = 200
                   /\ body' = 0
                   /\ wallets' = [wallets EXCEPT ![u] = 0]
                   /\ txns'[u] = << >>
                   /\ txns' = txns]_vars

\* a wallet that holds one completed credit of 1 has been read: the answer is
\* its balance and ledger and balance are as the credit left them
C18_Witness ==
    /\ AllIdle
    /\ resp = 200
    /\ \E u \in Users :
          /\ HasWallet(u)
          /\ body = 1
          /\ wallets[u] = 1
          /\ txns[u] = <<Transaction("credit", 1, "completed")>>

\* C19: no user has two wallet rows, also when get_wallet_balance and
\* add_money_to_wallet create concurrently, and no transaction row belongs to a
\* user without a wallet row.
C19_OneWalletPerUser ==
    \A u \in Users :
        /\ wallet_rows[u] <= 1
        /\ wallet_rows[u] = 0 => txns[u] = << >>
        /\ HasWallet(u) <=> wallet_rows[u] = 1

\* a concurrent creation has lost: it was answered 500, the user has one wallet
\* row and no transaction row of the loser
C19_Witness ==
    /\ AllIdle
    /\ resp = 500
    /\ \E u \in Users : wallet_rows[u] = 1 /\ txns[u] = << >>

\* C20: a cancel_ride call by a user who is neither the ride's rider, its driver
\* nor an administrator answers 403 and changes neither rides nor availability;
\* a call by an administrator on a ride that is not Completed or Cancelled
\* passes the checks and goes on to cancel the ride.
C20_CancelAuthorization ==
    [][\A p \in Procs, u \in Callers, r \in 1..Len(rides) :
          cancel_ride(p, u, r) =>
            /\ (u \notin {rides[r].rider_id, rides[r].driver_id} /\ role(u) # "admin")
                  => (resp' = 403 /\ pc'[p] = "idle" /\ UNCHANGED rideVars)
            /\ (role(u) = "admin" /\ rides[r].status \notin Terminal)
                  => pc'[p] = "cancel_ride_commit"]_vars

\* C21: when the driver of an Offered ride cancels it, through cancel_ride_offer
\* or through cancel_ride, the commit leaves the ride Cancelled and that driver
\* available.
C21_OfferCancelReleasesDriver ==
    [][\A p \in Procs :
          LET r == loc[p].arg IN
          (/\ cancel_ride_offer_commit(p) \/ cancel_ride_commit(p)
           /\ rides[r].status = "offered"
           /\ rides[r].driver_id = loc[p].user)
              => (rides'[r].status = "cancelled" /\ is_available'[loc[p].user])]_vars

\* C22: a step that adds a ride adds exactly one row and leaves the others as
\* they were; the row is either Requested with rider_id the caller of
\* request_ride and no driver, or Offered with driver_id the caller of offer_ride
\* and no rider.
C22_CreationShapes ==
    [][Len(rides') # Len(rides) =>
          /\ Len(rides') = Len(rides) + 1
          /\ SubSeq(rides', 1, Len(rides)) = rides
          /\ LET row == rides'[Len(rides')] IN
             \/ \E p \in Procs, u \in Callers, D \in Distances :
                   /\ request_ride(p, u, D)
                   /\ row.status = "requested"
                   /\ row.rider_id = u
                   /\ row.driver_id = NULL
             \/ \E p \in Procs :
                   /\ offer_ride_insert(p)
                   /\ row.status = "offered"
                   /\ row.driver_id = loc[p].user
                   /\ row.rider_id = NULL]_vars

\* C22 witness: both kinds of creation have happened, one ride was requested
\* and another one offered.
C22_Witness ==
    /\ Len(rides) = 2
    /\ \E r \in RideIds : Exists(r) /\ rides[r].rider_id # NULL /\ wins[r] = << >>
                            /\ rides[r].driver_id = NULL
    /\ \E r \in RideIds : Exists(r) /\ rides[r].driver_id # NULL /\ wins[r] = << >>
                            /\ rides[r].rider_id = NULL

\* C30: every ride that is Accepted, Started or Completed has a rider and a
\* driver, in every state of every interleaving of the ride handlers.
C30_MatchedRideHasBothParties ==
    \A r \in RideIds :
        (Exists(r) /\ rides[r].status \in {"accepted", "started", "completed"})
            => (rides[r].rider_id # NULL /\ rides[r].driver_id # NULL)

\* C30 witness: one ride became Accepted through accept_ride and another one
\* through accept_ride_offer.
C30_Witness ==
    /\ \E r \in RideIds : /\ Exists(r) /\ rides[r].status = "accepted"
                           /\ wins[r] # << >> /\ role(wins[r][1]) = "driver"
    /\ \E r \in RideIds : /\ Exists(r) /\ rides[r].status = "accepted"
                           /\ wins[r] # << >> /\ role(wins[r][1]) # "driver"

\* C23: manually_assign_ride called by an administrator for a Requested ride
\* and an available driver answers 200, and leaves the ride Accepted with
\* driver_id the given driver and that driver unavailable.
C23_AssignAccepts ==
    [][\A p \in Procs, u \in Admins, r \in RideIds, d \in Drivers :
          (/\ manually_assign_ride(p, u, r, d)
           /\ Exists(r)
           /\ rides[r].status = "requested"
           /\ is_available[d])
              => (/\ resp' = 200
                  /\ rides'[r].status = "accepted"
                  /\ rides'[r].driver_id = d
                  /\ ~is_available'[d])]_vars

\* the drivers named in a result list
DriverIds(list) == {list[i].driver_id : i \in 1..Len(list)}

\* the eligible drivers whose exact distance from the query point is within the radius
FullScan(longitude, radius) ==
    {d \in Drivers : Eligible(d) /\ calculate_distance(longitude, current_longitude[d]) <= radius}

\* C24: a nearby-drivers query returns each driver that is available, active,
\* of status active, has a position and lies within the radius of the query
\* point exactly once, returns no other driver, and orders the list by
\* non-decreasing distance.
C24_NearbyExact ==
    [][\A p \in Procs, u \in Askers, longitude \in Lons, radius \in Radii :
          (get_nearby_drivers(p, u, longitude, radius) /\ ~Inactive(u))
              => (/\ DriverIds(found') = FullScan(longitude, radius)
                  /\ Len(found') = Cardinality(FullScan(longitude, radius))
                  /\ \A i, j \in 1..Len(found') :
                        i < j => found'[i].distance <= found'[j].distance)]_vars

C27_BoxKeepsAnswer ==
    \A longitude \in Lons, radius \in Radii :
        \A order \in ScanOrders({d \in Drivers : Eligible(d) /\ InBox(d, longitude, radius)}) :
            DriverIds(nearby_drivers(order, longitude, radius)) = FullScan(longitude, radius)

\* C28: a commit of update_location never replaces a position whose timestamp
\* is later than the timestamp of the committing call, so that the stored
\* position is always the one with the latest timestamp.
C28_LastTimestampWins ==
    [][\A p \in Procs :
          update_location_commit(p) => loc[p].idx >= updated_at[loc[p].user]]_vars

\* C26: the breakdown stored with every ride, whether requested or offered, is
\* the breakdown estimate_fare answers for the same distance, with base fare
\* 50, time fare floor(D / 1000 * 2) and total fare the sum of the three
\* parts; an estimate_fare call answers that breakdown and changes no ride,
\* availability, wallet, account or position.
C26_OneFareFunction ==
    [][/\ \A r \in 1..Len(rides') :
            LET fare == rides'[r].fare
                D == fare.estimated_distance
            IN  /\ fare = FareEstimate(D)
                /\ fare.base_fare = 50
                /\ fare.time_fare * 1000 <= D * 2
                /\ D * 2 < (fare.time_fare + 1) * 1000
                /\ fare.total_fare = fare.base_fare + fare.distance_fare + fare.time_fare
       /\ quote' # {} =>
            \A p \in Procs, u \in Users, D \in Distances :
              estimate_fare(p, u, D)
                  => (/\ quote' = {FareEstimate(D)}
                      /\ rides' = rides /\ is_available' = is_available
                      /\ wallets' = wallets /\ txns' = txns
                      /\ user_status' = user_status /\ is_active' = is_active
                      /\ current_longitude' = current_longitude)]_vars

\* C26 witness: a requested ride and an offered ride over the same distance
\* with a time fare of 2 are stored, and the last response is the estimate for
\* that distance.
C26_Witness ==
    /\ \E r \in RideIds : /\ Exists(r) /\ rides[r].rider_id # NULL /\ rides[r].driver_id = NULL
                           /\ rides[r].fare.estimated_distance = 1480
                           /\ rides[r].fare.time_fare = 2
    /\ \E r \in RideIds : /\ Exists(r) /\ rides[r].driver_id # NULL /\ rides[r].rider_id = NULL
                           /\ rides[r].fare.estimated_distance = 1480
    /\ quote = {FareEstimate(1480)}

\* C29: a start_ride or complete_ride call changes a ride only if its caller
\* is the ride's driver_id; a call by anyone else is refused with a client
\* error (400 or 403) and leaves rides and availability unchanged.
C29_OnlyAssignedDriver ==
    [][\A p \in Procs, u \in Users, r \in 1..Len(rides) :
          (start_ride(p, u, r) \/ complete_ride(p, u, r))
              => /\ rides' # rides => u = rides[r].driver_id
                 /\ u # rides[r].driver_id
                      => (/\ resp' \in {400, 403}
                          /\ rides' = rides
                          /\ is_available' = is_available)]_vars

\* C31: in every state the driver_id of a ride, when set, is a user of role
\* driver, the rider_id, when set, is a user whose role is not driver, and
\* rider_id and driver_id of a ride differ.
C31_RoleSeparation ==
    \A r \in RideIds :
        Exists(r) =>
            /\ rides[r].driver_id # NULL => role(rides[r].driver_id) = "driver"
            /\ rides[r].rider_id # NULL => role(rides[r].rider_id) # "driver"
            /\ rides[r].rider_id # rides[r].driver_id

\* C31 witness: a ride has both a rider and a driver after an accept call, and
\* another ride was requested by the administrator.
C31_Witness ==
    /\ \E r \in RideIds : /\ Exists(r)
                           /\ rides[r].rider_id \in Riders
                           /\ rides[r].driver_id \in Drivers
                           /\ wins[r] # << >>
    /\ \E r \in RideIds : Exists(r) /\ rides[r].rider_id \in Admins

\* the Offered rides of a driver
OpenOffers(d) == {r \in RideIds : Exists(r) /\ rides[r].status = "offered" /\ rides[r].driver_id = d}

\* C32: in every state a driver has at most one Offered ride, and a driver who
\* has an Offered ride is not available, also while offer_ride calls of that
\* driver run concurrently.
C32_OneOpenOffer ==
    \A d \in Drivers :
        /\ Cardinality(OpenOffers(d)) <= 1
        /\ OpenOffers(d) # {} => ~is_available[d]

\* C33: an update_location call changes no ride, no availability and no
\* wallet; its commit for a driver changes only that driver's position and
\* updated_at, and a call by a caller who is not a driver changes no stored
\* state at all.
C33_LocationFrame ==
    [][\A p \in Procs :
          /\ (\E u \in Callers, longitude \in Lons : update_location(p, u, longitude))
                => (/\ rides' = rides /\ is_available' = is_available
                    /\ wallets' = wallets /\ txns' = txns /\ wallet_rows' = wallet_rows
                    /\ user_status' = user_status /\ is_active' = is_active
                    /\ current_longitude' = current_longitude
                    /\ updated_at' = updated_at)
          /\ update_location_commit(p)
                => (/\ rides' = rides /\ is_available' = is_available
                    /\ wallets' = wallets /\ txns' = txns /\ wallet_rows' = wallet_rows
                    /\ user_status' = user_status /\ is_active' = is_active
                    /\ role(loc[p].user) = "driver"
                    /\ \A d \in Drivers \ {loc[p].user} :
                          /\ current_longitude'[d] = current_longitude[d]
                          /\ updated_at'[d] = updated_at[d])]_vars

\* C33 witness: the driver of an Accepted ride has reported a position while
\* unavailable, and the rider has a wallet.
C33_Witness ==
    \E r \in RideIds :
        /\ Exists(r)
        /\ rides[r].status = "accepted"
        /\ rides[r].driver_id \in Drivers
        /\ updated_at[rides[r].driver_id] > 0
        /\ current_longitude[rides[r].driver_id] # NoPosition
        /\ ~is_available[rides[r].driver_id]
        /\ HasWallet(rides[r].rider_id)

\* a user between ban_user and unban_user
Banned(u) == u \in Drivers /\ ~is_active[u]

\* C34: a call that a banned user starts is answered 400 and changes no ride,
\* no availability, no wallet and no position, and the list a nearby-drivers
\* query returns names no banned driver.
C34_BannedUserRejected ==
    [][/\ \A p \in Procs, u \in Users :
            (/\ Banned(u)
             /\ pc[p] = "idle"
             /\ \/ \E D \in Distances : request_ride(p, u, D) \/ offer_ride(p, u, D)
                \/ \E r \in RideIds : \/ accept_ride(p, u, r) \/ accept_ride_offer(p, u, r)
                                       \/ start_ride(p, u, r) \/ complete_ride(p, u, r)
                                       \/ cancel_ride(p, u, r) \/ cancel_ride_offer(p, u, r)
                \/ set_driver_available(p, u)
                \/ \E avail \in BOOLEAN : update_driver_profile(p, u, avail)
                \/ \E longitude \in Lons : update_location(p, u, longitude)
                \/ get_wallet_balance(p, u)
                \/ \E amount \in Amounts : \/ add_money_to_wallet(p, u, amount)
                                            \/ deduct_from_wallet(p, u, amount)
                \/ \E longitude \in Lons, radius \in Radii :
                      get_nearby_drivers(p, u, longitude, radius))
                => (/\ resp' = 400
                    /\ pc'[p] = "idle"
                    /\ rides' = rides /\ is_available' = is_available
                    /\ wallets' = wallets /\ txns' = txns /\ wallet_rows' = wallet_rows
                    /\ current_longitude' = current_longitude
                    /\ updated_at' = updated_at /\ clock' = clock)
       /\ \A i \in 1..Len(found') :
            (\E p \in Procs, u \in Users, longitude \in Lons, radius \in Radii :
                get_nearby_drivers(p, u, longitude, radius))
                => ~Banned(found'[i].driver_id)]_vars

\* C34 witness: a driver who is available, has reported a position and has a
\* wallet is banned, and the last call was answered 400.
C34_Witness ==
    \E d \in Drivers :
        /\ Banned(d)
        /\ user_status[d] = "suspended"
        /\ is_available[d]
        /\ current_longitude[d] # NoPosition
        /\ HasWallet(d)
        /\ resp = 400
        /\ AllIdle

\* C35: a driver who has never been approved (is_verified false) gets the
\* status active only by the commit of an approving approve_driver call or of
\* an approving KYC review, which also marks the driver verified.
C35_ActiveOnlyByApproval ==
    [][\A d \in Drivers :
          (/\ user_status[d] # "active"
           /\ user_status'[d] = "active"
           /\ ~is_verified[d])
              => (/\ is_verified'[d]
                  /\ \E p \in Procs : \/ approve_driver_commit(p)
                                       \/ review_kyc_application_commit(p))]_vars

\* C39: the status of a KYC application changes only from pending, to
\* approved or to rejected, and a review commit that makes the applicant
\* active or verified leaves the application approved.
C39_DecidedOnce ==
    [][/\ \A a \in 1..Len(kyc_applications) :
            kyc_applications'[a].status # kyc_applications[a].status
                => (/\ kyc_applications[a].status = "pending"
                    /\ kyc_applications'[a].status \in {"approved", "rejected"})
       /\ \A p \in Procs :
            (/\ review_kyc_application_commit(p)
             /\ \/ user_status' # user_status
                \/ is_verified' # is_verified)
                => kyc_applications'[loc[p].arg].status = "approved"]_vars

\* C36: the counter of an identifier counts the OTPs issued since its last
\* successful verification: a request-otp call that succeeds adds one to it,
\* only a successful verification lowers it, it never exceeds
\* MAX_OTP_ATTEMPTS, and a request-otp call made when it has reached
\* MAX_OTP_ATTEMPTS is answered 429 and leaves the counter and the last-sent
\* time as they were.
C36_OtpIssueLimit ==
    [][/\ \A email \in Identifiers : otp_attempts'[email] <= MAX_OTP_ATTEMPTS
       /\ \A email \in Identifiers :
            otp_attempts'[email] < otp_attempts[email]
                => \E p \in Procs : /\ verify_otp_commit(p) \/ login_with_otp_commit(p)
                                    /\ loc[p].user = email
                                    /\ resp' = 200
       /\ \A p \in Procs, email \in Identifiers, digits \in Otps :
            request_otp(p, email, digits)
                => /\ resp' = 200
                        => (/\ otp_attempts[email] < MAX_OTP_ATTEMPTS
                            /\ otp_attempts'[email] = otp_attempts[email] + 1)
                   /\ otp_attempts[email] >= MAX_OTP_ATTEMPTS
                        => (/\ resp' = 429
                            /\ otp_attempts' = otp_attempts
                            /\ last_sent' = last_sent
                            /\ otp' = otp)]_vars

\* C36 witness: three OTPs were issued and the next request, made after the
\* resend delay, was answered 429 for the limit.
C36_Witness ==
    \E email \in Identifiers :
        /\ otp_attempts[email] = MAX_OTP_ATTEMPTS
        /\ now - last_sent[email] >= RESEND_DELAY_SECONDS
        /\ resp = 429
        /\ detail = "Maximum OTP attempts reached. Please try again later."

\* the identifier has reached the limit of OTPs and its last OTP has expired
LockedOut(email) ==
    /\ otp_attempts[email] >= MAX_OTP_ATTEMPTS
    /\ otp_valid_until[email] # NoTime
    /\ now > otp_valid_until[email]

\* C37: an identifier that has reached the limit of OTPs and whose last OTP
\* has expired gets below the limit again, so that generate_otp succeeds for
\* it, when time goes on and the client keeps calling.
C37_LockoutEnds ==
    \A email \in Identifiers :
        LockedOut(email) ~> (otp_attempts[email] < MAX_OTP_ATTEMPTS)

\* no step of the OTP routes and no passage of time leaves the lockout: the
\* states in which an identifier is locked out are closed under NextOtp
LockoutPersists ==
    [][\A email \in Identifiers : LockedOut(email) => LockedOut(email)']_vars

\* C38: a verify-otp or login-with-otp call succeeds only while the OTP is
\* stored for the user, that is, before another call has succeeded with it.
C38_OtpSingleUse ==
    [][\A p \in Procs :
          (/\ verify_otp_commit(p) \/ login_with_otp_commit(p)
           /\ resp' = 200)
              => otp[loc[p].user] # NoOtp]_vars

====
